---- MODULE Spec2Model ----
(***************************************************************************)
(* Model of src/types/convert.cpp: the wide <-> multibyte conversion       *)
(* helpers (ConvertToW, ConvertToA), the key event synthesizers            *)
(* (CharToKeyEvents, SynthesizeKeyboardEvents, SynthesizeNumpadEvents),    *)
(* GetQuickCharWidth and Utf16ToUcs2.                                      *)
(*                                                                         *)
(* The functions are pure apart from the thread's last-error value and the *)
(* caller-owned output buffers, so each is an operator and each action is  *)
(* one call made by a client with arguments drawn from small sets.  The OS *)
(* collaborators (VkKeyScanW, GetStringTypeW, MultiByteToWideChar,         *)
(* WideCharToMultiByte) are the environment: their answer to a call is     *)
(* chosen by the action and recorded in the state.                         *)
(***************************************************************************)
EXTENDS Integers, Sequences, FiniteSets, TLC

VARIABLES
    fn,          \* name of the function the client called last
    wch,         \* its wchar_t argument
    codepage,    \* its code page argument
    vkKeyScan,   \* what VkKeyScanW answered (a short)
    charType,    \* what GetStringTypeW(CT_CTYPE3) stored in CharType
    keyState,    \* the keyState handed on to the synthesizer (a short)
    source,      \* the string argument (source / charData)
    os,          \* what the OS conversion primitive answers for this call
    osCalls,     \* how many times the call invoked the OS conversion primitive
    keyEvents,   \* the returned deque of KeyEvents
    retval,      \* the returned scalar (wchar_t or CodepointWidth), where any
    thrown,      \* 0 when the call returned, else the Win32 code of the HRESULT thrown
    outBufferW,  \* the caller's cached std::wstring
    outBufferA,  \* the caller's cached std::string
    prevBuffer,  \* what the buffer used by the call held before it
    lastError    \* the thread's last-error value (GetLastError)

vars == <<fn, wch, codepage, vkKeyScan, charType, keyState, source, os, osCalls,
          keyEvents, retval, thrown, outBufferW, outBufferA, prevBuffer,
          lastError>>

----------------------------------------------------------------------------
(* Bounds of the model *)

\* longest source string handed to a conversion
MaxLen == 2
\* longest output the OS conversion primitive produces
MaxOut == 2

----------------------------------------------------------------------------
(* Program and platform constants *)

altScanCode == 56
leftShiftScanCode == 42
VK_SHIFT == 16
VK_MENU == 18
VK_NUMPAD0 == 96
UNICODE_NULL == 0
UNICODE_REPLACEMENT == 65533
invalidKey == -1
ShiftPressed == 1
CtrlPressed == 2
CtrlAndAltPressed == 6
C3_ALPHA == 32768
INT_MAX == 2147483647
\* Win32 codes of the HRESULTs thrown
E_INVALIDARG == 87
ERROR_ARITHMETIC_OVERFLOW == 534
ERROR_ASSERTION_FAILURE == 668

----------------------------------------------------------------------------
(* Bit helpers *)

RECURSIVE BitAnd(_, _)
BitAnd(a, b) ==
    IF a = 0 \/ b = 0 THEN 0
    ELSE (IF a % 2 = 1 /\ b % 2 = 1 THEN 1 ELSE 0) + 2 * BitAnd(a \div 2, b \div 2)

\* the 16 bits of a short, as an unsigned value
Bits16(w) == w % 65536
\* the short with these 16 bits
ToShort(u) == IF u % 65536 >= 32768 THEN (u % 65536) - 65536 ELSE u % 65536

HIBYTE(w) == (Bits16(w) \div 256) % 256
LOBYTE(w) == Bits16(w) % 256

WI_IsFlagSet(val, flag) == BitAnd(val, flag) # 0
WI_AreAllFlagsSet(val, flags) == BitAnd(val, flags) = flags

----------------------------------------------------------------------------
(* std::string / std::wstring buffer operations *)

\* a resize that grows the string but never shrinks it
resize_keep(buf, n) ==
    IF n <= Len(buf) THEN buf ELSE buf \o [i \in 1..(n - Len(buf)) |-> 0]

\* basic_string::resize(n): truncates, or pads with value-initialised units
resize(buf, n) ==
    IF n <= Len(buf) THEN SubSeq(buf, 1, n)
    ELSE buf \o [i \in 1..(n - Len(buf)) |-> 0]

\* the OS primitive storing `data` through buf.data()
WriteInto(buf, data) ==
    [i \in 1..Len(buf) |-> IF i <= Len(data) THEN data[i] ELSE buf[i]]

----------------------------------------------------------------------------
(* The OS conversion primitives.  `answer` is what the platform does for   *)
(* the call's code page and source: [out |-> the converted units,          *)
(* err |-> 0] when it converts (possibly to nothing, without touching the   *)
(* last error), [out |-> <<>>, err |-> e] when it fails with last error e.  *)
(* cch = 0 asks for the length only.                                       *)

MultiByteToWideChar(answer, gle, buf, cch) ==
    IF answer.err # 0
    THEN [ret |-> 0, gle |-> answer.err, buf |-> buf]
    ELSE [ret |-> Len(answer.out), gle |-> gle,
          buf |-> IF cch = 0 THEN buf ELSE WriteInto(buf, answer.out)]

WideCharToMultiByte(answer, gle, buf, cch) ==
    IF answer.err # 0
    THEN [ret |-> 0, gle |-> answer.err, buf |-> buf]
    ELSE [ret |-> Len(answer.out), gle |-> gle,
          buf |-> IF cch = 0 THEN buf ELSE WriteInto(buf, answer.out)]

\* throws the last error when the condition holds, unless the last error is 0
THROW_LAST_ERROR_IF_AND_IGNORE_BAD_GLE(condition, gle) == condition /\ gle # 0

\* throws whenever the condition holds
THROW_LAST_ERROR_IF(condition) == condition

\* the code thrown by THROW_LAST_ERROR_IF: the last error, or an assertion
\* failure code when the last error is not a failure
GetLastErrorFail(gle) == IF gle = 0 THEN ERROR_ASSERTION_FAILURE ELSE gle

----------------------------------------------------------------------------
(* ConvertToW / ConvertToA.  Each returns                                   *)
(* [out, thrown, gle, osCalls]: the buffer after the call, the code thrown *)
(* (0 when it returned), the last error after it, the OS calls it made.    *)

\* void ConvertToW(codePage, source, outBuffer)
ConvertToW(answer, src, outBuffer, gle) ==
    IF src = <<>>
    THEN [out |-> <<>>, thrown |-> 0, gle |-> gle, osCalls |-> 0]
    ELSE IF Len(src) > INT_MAX
    THEN [out |-> outBuffer, thrown |-> ERROR_ARITHMETIC_OVERFLOW, gle |-> gle, osCalls |-> 0]
    ELSE LET q == MultiByteToWideChar(answer, 0, outBuffer, 0)
             iTarget == q.ret
         IN IF THROW_LAST_ERROR_IF_AND_IGNORE_BAD_GLE(0 = iTarget, q.gle)
            THEN [out |-> outBuffer, thrown |-> q.gle, gle |-> q.gle, osCalls |-> 1]
            ELSE IF iTarget < 0
            THEN [out |-> outBuffer, thrown |-> ERROR_ARITHMETIC_OVERFLOW, gle |-> q.gle, osCalls |-> 1]
            ELSE LET c == MultiByteToWideChar(answer, q.gle, resize(outBuffer, iTarget), iTarget)
                 IN IF THROW_LAST_ERROR_IF_AND_IGNORE_BAD_GLE(0 = c.ret, c.gle)
                    THEN [out |-> c.buf, thrown |-> c.gle, gle |-> c.gle, osCalls |-> 2]
                    ELSE [out |-> c.buf, thrown |-> 0, gle |-> c.gle, osCalls |-> 2]

\* std::wstring ConvertToW(codePage, source)
ConvertToWString(answer, src, gle) == ConvertToW(answer, src, <<>>, gle)

\* void ConvertToA(codepage, source, outBuffer)
ConvertToA(answer, src, outBuffer, gle) ==
    IF src = <<>>
    THEN [out |-> <<>>, thrown |-> 0, gle |-> gle, osCalls |-> 0]
    ELSE IF Len(src) > INT_MAX
    THEN [out |-> outBuffer, thrown |-> ERROR_ARITHMETIC_OVERFLOW, gle |-> gle, osCalls |-> 0]
    ELSE LET q == WideCharToMultiByte(answer, gle, outBuffer, 0)
             iTarget == q.ret
         IN IF THROW_LAST_ERROR_IF(0 = iTarget)
            THEN [out |-> outBuffer, thrown |-> GetLastErrorFail(q.gle), gle |-> q.gle, osCalls |-> 1]
            ELSE IF iTarget < 0
            THEN [out |-> outBuffer, thrown |-> ERROR_ARITHMETIC_OVERFLOW, gle |-> q.gle, osCalls |-> 1]
            ELSE LET c == WideCharToMultiByte(answer, q.gle, resize(outBuffer, iTarget), iTarget)
                 IN IF THROW_LAST_ERROR_IF(0 = c.ret)
                    THEN [out |-> c.buf, thrown |-> GetLastErrorFail(c.gle), gle |-> c.gle, osCalls |-> 2]
                    ELSE [out |-> c.buf, thrown |-> 0, gle |-> c.gle, osCalls |-> 2]

\* std::string ConvertToA(codepage, source)
ConvertToAString(answer, src, gle) == ConvertToA(answer, src, <<>>, gle)

----------------------------------------------------------------------------
(* Key events *)

\* KeyEvent(isKeyDown, repeatCount, virtualKeyCode, virtualScanCode, char, modifiers);
\* the modifier DWORD is the set of the control key state bits that are set
KeyEvent(down, repeat, vk, scan, ch, modifiers) ==
    [isKeyDown |-> down, repeatCount |-> repeat, virtualKeyCode |-> vk,
     virtualScanCode |-> scan, char |-> ch, modifiers |-> modifiers]

\* MapVirtualKeyW(vk, MAPVK_VK_TO_VSC) narrowed to a WORD: the scan codes of
\* the keys the model uses, 0 for a virtual key that has none
MapVirtualKeyW(vk) ==
    CASE vk = VK_SHIFT -> leftShiftScanCode
      [] vk = VK_MENU -> altScanCode
      [] vk = 65 -> 30
      [] vk \in VK_NUMPAD0..(VK_NUMPAD0 + 9) ->
            <<82, 79, 80, 81, 75, 76, 77, 71, 72, 73>>[vk - VK_NUMPAD0 + 1]
      [] OTHER -> 0

\* a modifier press that tests the Shift bit before the Ctrl and Alt bits
ModifierKeyDown_shiftFirst(modifierState) ==
    IF WI_IsFlagSet(modifierState, ShiftPressed)
    THEN <<KeyEvent(TRUE, 1, VK_SHIFT, leftShiftScanCode, UNICODE_NULL, {"SHIFT_PRESSED"})>>
    ELSE IF WI_AreAllFlagsSet(modifierState, CtrlAndAltPressed)
    THEN <<KeyEvent(TRUE, 1, VK_MENU, altScanCode, UNICODE_NULL,
                    {"ENHANCED_KEY", "LEFT_CTRL_PRESSED", "RIGHT_ALT_PRESSED"})>>
    ELSE <<>>

\* the modifier key pressed before the character key
ModifierKeyDown(modifierState) ==
    IF WI_AreAllFlagsSet(modifierState, CtrlAndAltPressed)
    THEN <<KeyEvent(TRUE, 1, VK_MENU, altScanCode, UNICODE_NULL,
                    {"ENHANCED_KEY", "LEFT_CTRL_PRESSED", "RIGHT_ALT_PRESSED"})>>
    ELSE IF WI_IsFlagSet(modifierState, ShiftPressed)
    THEN <<KeyEvent(TRUE, 1, VK_SHIFT, leftShiftScanCode, UNICODE_NULL, {"SHIFT_PRESSED"})>>
    ELSE <<>>

\* the flags of the character key event, with Shift taken from the category
\* (the Shift bit without AltGr) rather than from the raw Shift bit
PrimaryModifiers_byCategory(modifierState) ==
    (IF WI_IsFlagSet(modifierState, ShiftPressed)
        /\ ~WI_AreAllFlagsSet(modifierState, CtrlAndAltPressed)
     THEN {"SHIFT_PRESSED"} ELSE {})
    \cup (IF WI_IsFlagSet(modifierState, CtrlPressed) THEN {"LEFT_CTRL_PRESSED"} ELSE {})
    \cup (IF WI_AreAllFlagsSet(modifierState, CtrlAndAltPressed) THEN {"RIGHT_ALT_PRESSED"} ELSE {})

\* the flags ActivateModifierKey sets on the character key event
PrimaryModifiers(modifierState) ==
    (IF WI_IsFlagSet(modifierState, ShiftPressed) THEN {"SHIFT_PRESSED"} ELSE {})
    \cup (IF WI_IsFlagSet(modifierState, CtrlPressed) THEN {"LEFT_CTRL_PRESSED"} ELSE {})
    \cup (IF WI_AreAllFlagsSet(modifierState, CtrlAndAltPressed) THEN {"RIGHT_ALT_PRESSED"} ELSE {})

\* a release that lets go of Shift whichever modifier was pressed
ModifierKeyUp_shift(altGrSet, shiftSet) ==
    IF altGrSet \/ shiftSet
    THEN <<KeyEvent(FALSE, 1, VK_SHIFT, leftShiftScanCode, UNICODE_NULL, {})>>
    ELSE <<>>

\* the modifier key released after the character key
ModifierKeyUp(altGrSet, shiftSet) ==
    IF altGrSet
    THEN <<KeyEvent(FALSE, 1, VK_MENU, altScanCode, UNICODE_NULL, {"ENHANCED_KEY"})>>
    ELSE IF shiftSet
    THEN <<KeyEvent(FALSE, 1, VK_SHIFT, leftShiftScanCode, UNICODE_NULL, {})>>
    ELSE <<>>

\* std::deque<KeyEvent> SynthesizeKeyboardEvents(wch, keyState)
SynthesizeKeyboardEvents(ch, state) ==
    LET modifierState == HIBYTE(state)
        vk == LOBYTE(state)
        virtualScanCode == MapVirtualKeyW(vk)
        keyEvent == KeyEvent(TRUE, 1, LOBYTE(state), virtualScanCode, ch,
                             PrimaryModifiers(modifierState))
        altGrSet == WI_AreAllFlagsSet(modifierState, CtrlAndAltPressed)
        shiftSet == ~altGrSet /\ WI_IsFlagSet(modifierState, ShiftPressed)
    IN ModifierKeyDown(modifierState)
       \o <<keyEvent, [keyEvent EXCEPT !.isKeyDown = FALSE]>>
       \o ModifierKeyUp(altGrSet, shiftSet)

\* a char read as it is, sign and all
static_cast_none(c) == c

\* static_cast<unsigned char>(c) of a char -128..127
static_cast_unsigned_char(c) == c % 256

\* std::to_string of an int: its decimal digits as characters, '-' first
\* when it is negative
RECURSIVE to_string(_)
to_string(n) ==
    IF n < 0 THEN <<45>> \o to_string(-n)
    ELSE IF n < 10 THEN <<48 + n>>
    ELSE to_string(n \div 10) \o <<48 + (n % 10)>>

\* the down/up pair of one digit character of charString
NumpadDigit(ch) ==
    LET virtualKey == ch - 48 + VK_NUMPAD0
        virtualScanCode == MapVirtualKeyW(virtualKey)
    IN <<KeyEvent(TRUE, 1, virtualKey, virtualScanCode, UNICODE_NULL, {"LEFT_ALT_PRESSED"}),
         KeyEvent(FALSE, 1, virtualKey, virtualScanCode, UNICODE_NULL, {"LEFT_ALT_PRESSED"})>>

RECURSIVE NumpadDigits(_)
NumpadDigits(charString) ==
    IF charString = <<>> \/ Head(charString) = 0 THEN <<>>
    ELSE NumpadDigit(Head(charString)) \o NumpadDigits(Tail(charString))

\* the closing Alt release without the character
NumpadAltUp_null(ch) ==
    KeyEvent(FALSE, 1, VK_MENU, altScanCode, UNICODE_NULL, {})

\* the closing Alt release, which carries the character
NumpadAltUp(ch) ==
    KeyEvent(FALSE, 1, VK_MENU, altScanCode, ch, {})

\* std::deque<KeyEvent> SynthesizeNumpadEvents(wch, codepage); returns
\* [events, thrown, gle, osCalls]
SynthesizeNumpadEvents(ch, cp, answer, gle) ==
    LET altDown == KeyEvent(TRUE, 1, VK_MENU, altScanCode, UNICODE_NULL, {"LEFT_ALT_PRESSED"})
        wstr == <<ch>>
        conv == ConvertToAString(answer, wstr, gle)
        convertedChars == conv.out
    IN IF conv.thrown # 0
       THEN [events |-> <<>>, thrown |-> conv.thrown, gle |-> conv.gle, osCalls |-> conv.osCalls]
       ELSE [events |->
                <<altDown>>
                \o (IF Len(convertedChars) = 1
                    THEN NumpadDigits(to_string(static_cast_unsigned_char(convertedChars[1])))
                    ELSE <<>>)
                \o <<NumpadAltUp(ch)>>,
             thrown |-> 0, gle |-> conv.gle, osCalls |-> conv.osCalls]

\* a width lookup that reports the CJK range as wide
GetQuickCharWidth_cjk(ch) ==
    IF 32 <= ch /\ ch <= 126 THEN "Narrow"
    ELSE IF 11904 <= ch /\ ch <= 40959 THEN "Wide"
    ELSE "Invalid"

\* CodepointWidth GetQuickCharWidth(wch)
GetQuickCharWidth(ch) ==
    IF 32 <= ch /\ ch <= 126 THEN "Narrow" ELSE "Invalid"

\* the dispatcher without the alphabetic override
KeyStateFor_noOverride(ch, scan, CharType) == scan

\* the keyState CharToKeyEvents hands on: VkKeyScanW's answer, or 0 for an
\* unmapped character that is alphabetic or wide
KeyStateFor(ch, scan, CharType) ==
    IF scan = invalidKey
       /\ (WI_IsFlagSet(CharType, C3_ALPHA) \/ GetQuickCharWidth(ch) = "Wide")
    THEN 0
    ELSE scan

\* std::deque<KeyEvent> CharToKeyEvents(wch, codepage); returns
\* [events, thrown, gle, osCalls, keyState]
CharToKeyEvents(ch, cp, scan, CharType, answer, gle) ==
    LET state == KeyStateFor(ch, scan, CharType)
    IN IF state = invalidKey
       THEN LET r == SynthesizeNumpadEvents(ch, cp, answer, gle)
            IN [events |-> r.events, thrown |-> r.thrown, gle |-> r.gle,
                osCalls |-> r.osCalls, keyState |-> state]
       ELSE [events |-> SynthesizeKeyboardEvents(ch, state), thrown |-> 0,
             gle |-> gle, osCalls |-> 0, keyState |-> state]

\* a conversion that always hands back the first code unit
Utf16ToUcs2_front(charData) ==
    IF charData = <<>> THEN [thrown |-> E_INVALIDARG, val |-> UNICODE_NULL]
    ELSE [thrown |-> 0, val |-> Head(charData)]

\* wchar_t Utf16ToUcs2(charData); returns [thrown, val]
Utf16ToUcs2(charData) ==
    IF charData = <<>> THEN [thrown |-> E_INVALIDARG, val |-> UNICODE_NULL]
    ELSE IF Len(charData) > 1 THEN [thrown |-> 0, val |-> UNICODE_REPLACEMENT]
    ELSE [thrown |-> 0, val |-> Head(charData)]

----------------------------------------------------------------------------
(* The arguments and the environment's answers the calls are made with *)

BoundedSeqs(S, n) == UNION {[1..k -> S] : k \in 0..n}

\* characters handed to the key event functions: NUL, 'A' and U+3042
KeyChars == {0, 65, 12354}
\* characters handed to GetQuickCharWidth: both edges of 0x20..0x7E and beyond
WidthChars == {0, 31, 32, 65, 126, 127, 160, 12354, 65535}
CodePages == {437}
\* VkKeyScanW answers: a virtual key in the low byte, the shift state in the high
VirtualKeys == {65, VK_SHIFT, VK_MENU}
\* every Shift/Ctrl/Alt combination, and 0x86, which makes the short negative
Modifiers == 0..7 \cup {134}
KeyStates == {ToShort(m * 256 + vk) : m \in Modifiers, vk \in VirtualKeys}
VkKeyScanAnswers == KeyStates \cup {invalidKey}
\* CT_CTYPE3 answers: nothing, C3_SYMBOL, C3_ALPHA
CharTypes == {0, 8, C3_ALPHA}
\* source strings: runs of 'A'
Sources == BoundedSeqs({65}, MaxLen)
\* last errors: one an unrelated API left behind, one the conversion reports
StaleErrors == {2}
OsErrors == {1113}
\* chars (-128..127) a code page may map a character to: 0, 'A', 0xC8, 0xFF
LeadChars == {0, 65, -56, -1}
OutputsA ==
    {<<>>} \cup {[i \in 1..k |-> IF i = 1 THEN b ELSE 64] : b \in LeadChars, k \in 1..MaxOut}
OutputsW == BoundedSeqs({65, 66}, MaxOut)
NoAnswer == [out |-> <<>>, err |-> 0]
Answers(outputs) ==
    {[out |-> o, err |-> 0] : o \in outputs} \cup {[out |-> <<>>, err |-> e] : e \in OsErrors}

----------------------------------------------------------------------------
(* The state machine: one action per call *)

Init ==
    /\ fn = "none"
    /\ wch = 0
    /\ codepage = 0
    /\ vkKeyScan = 0
    /\ charType = 0
    /\ keyState = 0
    /\ source = <<>>
    /\ os = NoAnswer
    /\ osCalls = 0
    /\ keyEvents = <<>>
    /\ retval = 0
    /\ thrown = 0
    /\ outBufferW = <<>>
    /\ outBufferA = <<>>
    /\ prevBuffer = <<>>
    /\ lastError = 0

\* an unrelated API fails on this thread and leaves its error behind
OtherApiFails ==
    \E e \in StaleErrors :
        /\ fn' = "other"
        /\ lastError' = e
        /\ wch' = 0 /\ codepage' = 0 /\ vkKeyScan' = 0 /\ charType' = 0
        /\ keyState' = 0 /\ source' = <<>> /\ os' = NoAnswer /\ osCalls' = 0
        /\ keyEvents' = <<>> /\ retval' = 0 /\ thrown' = 0 /\ prevBuffer' = <<>>
        /\ UNCHANGED <<outBufferW, outBufferA>>

CallConvertToW ==
    \E cp \in CodePages, src \in Sources :
    \E answer \in (IF src = <<>> THEN {NoAnswer} ELSE Answers(OutputsW)) :
        LET r == ConvertToW(answer, src, outBufferW, lastError)
        IN /\ fn' = "ConvertToW"
           /\ codepage' = cp /\ source' = src /\ os' = answer
           /\ osCalls' = r.osCalls /\ thrown' = r.thrown
           /\ outBufferW' = r.out /\ prevBuffer' = outBufferW
           /\ lastError' = r.gle
           /\ wch' = 0 /\ vkKeyScan' = 0 /\ charType' = 0 /\ keyState' = 0
           /\ keyEvents' = <<>> /\ retval' = 0
           /\ UNCHANGED outBufferA

CallConvertToA ==
    \E cp \in CodePages, src \in Sources :
    \E answer \in (IF src = <<>> THEN {NoAnswer} ELSE Answers(OutputsA)) :
        LET r == ConvertToA(answer, src, outBufferA, lastError)
        IN /\ fn' = "ConvertToA"
           /\ codepage' = cp /\ source' = src /\ os' = answer
           /\ osCalls' = r.osCalls /\ thrown' = r.thrown
           /\ outBufferA' = r.out /\ prevBuffer' = outBufferA
           /\ lastError' = r.gle
           /\ wch' = 0 /\ vkKeyScan' = 0 /\ charType' = 0 /\ keyState' = 0
           /\ keyEvents' = <<>> /\ retval' = 0
           /\ UNCHANGED outBufferW

CallSynthesizeKeyboardEvents ==
    \E ch \in KeyChars, state \in KeyStates \cup {0} :
        /\ fn' = "SynthesizeKeyboardEvents"
        /\ wch' = ch /\ keyState' = state
        /\ keyEvents' = SynthesizeKeyboardEvents(ch, state)
        /\ thrown' = 0
        /\ codepage' = 0 /\ vkKeyScan' = 0 /\ charType' = 0 /\ source' = <<>>
        /\ os' = NoAnswer /\ osCalls' = 0 /\ retval' = 0 /\ prevBuffer' = <<>>
        /\ UNCHANGED <<outBufferW, outBufferA, lastError>>

CallSynthesizeNumpadEvents ==
    \E ch \in KeyChars, cp \in CodePages, answer \in Answers(OutputsA) :
        LET r == SynthesizeNumpadEvents(ch, cp, answer, lastError)
        IN /\ fn' = "SynthesizeNumpadEvents"
           /\ wch' = ch /\ codepage' = cp /\ os' = answer
           /\ keyEvents' = r.events /\ thrown' = r.thrown
           /\ osCalls' = r.osCalls
           /\ lastError' = r.gle
           /\ vkKeyScan' = 0 /\ charType' = 0 /\ keyState' = 0 /\ source' = <<>>
           /\ retval' = 0 /\ prevBuffer' = <<>>
           /\ UNCHANGED <<outBufferW, outBufferA>>

CallCharToKeyEvents ==
    \E ch \in KeyChars, cp \in CodePages, scan \in VkKeyScanAnswers :
    \E CharType \in (IF scan = invalidKey THEN CharTypes ELSE {0}) :
    \E answer \in (IF KeyStateFor(ch, scan, CharType) = invalidKey
                   THEN Answers(OutputsA) ELSE {NoAnswer}) :
        LET r == CharToKeyEvents(ch, cp, scan, CharType, answer, lastError)
        IN /\ fn' = "CharToKeyEvents"
           /\ wch' = ch /\ codepage' = cp /\ vkKeyScan' = scan
           /\ charType' = CharType /\ os' = answer
           /\ keyState' = r.keyState
           /\ keyEvents' = r.events /\ thrown' = r.thrown
           /\ osCalls' = r.osCalls
           /\ lastError' = r.gle
           /\ source' = <<>> /\ retval' = 0 /\ prevBuffer' = <<>>
           /\ UNCHANGED <<outBufferW, outBufferA>>

CallGetQuickCharWidth ==
    \E ch \in WidthChars :
        /\ fn' = "GetQuickCharWidth"
        /\ wch' = ch
        /\ retval' = GetQuickCharWidth(ch)
        /\ thrown' = 0
        /\ codepage' = 0 /\ vkKeyScan' = 0 /\ charType' = 0 /\ keyState' = 0
        /\ source' = <<>> /\ os' = NoAnswer /\ osCalls' = 0 /\ keyEvents' = <<>>
        /\ prevBuffer' = <<>>
        /\ UNCHANGED <<outBufferW, outBufferA, lastError>>

CallUtf16ToUcs2 ==
    \E charData \in BoundedSeqs({65, 55357}, MaxLen) :
        LET r == Utf16ToUcs2(charData)
        IN /\ fn' = "Utf16ToUcs2"
           /\ source' = charData
           /\ retval' = r.val /\ thrown' = r.thrown
           /\ wch' = 0 /\ codepage' = 0 /\ vkKeyScan' = 0 /\ charType' = 0
           /\ keyState' = 0 /\ os' = NoAnswer /\ osCalls' = 0 /\ keyEvents' = <<>>
           /\ prevBuffer' = <<>>
           /\ UNCHANGED <<outBufferW, outBufferA, lastError>>

\* the key event functions, GetQuickCharWidth and Utf16ToUcs2
NextKeys ==
    \/ OtherApiFails
    \/ CallSynthesizeKeyboardEvents
    \/ CallSynthesizeNumpadEvents
    \/ CallCharToKeyEvents
    \/ CallGetQuickCharWidth
    \/ CallUtf16ToUcs2

SpecKeys == Init /\ [][NextKeys]_vars

\* the conversions into the caller's buffers
NextConvert ==
    \/ OtherApiFails
    \/ CallConvertToW
    \/ CallConvertToA

SpecConvert == Init /\ [][NextConvert]_vars

----------------------------------------------------------------------------
(* Helpers of the properties.  They read the modifier byte and the events  *)
(* on their own, without the operators that model the code.                *)

ModByte == (keyState % 65536) \div 256
ShiftBit == ModByte % 2 = 1
CtrlBit == (ModByte \div 2) % 2 = 1
AltBit == (ModByte \div 4) % 2 = 1
AltGrCategory == CtrlBit /\ AltBit
ShiftCategory == ShiftBit /\ ~AltGrCategory

\* the call went through SynthesizeKeyboardEvents
KeyboardPath ==
    \/ fn = "SynthesizeKeyboardEvents"
    \/ fn = "CharToKeyEvents" /\ keyState # -1

\* the call went through SynthesizeNumpadEvents and returned
NumpadPath ==
    /\ \/ fn = "SynthesizeNumpadEvents"
       \/ fn = "CharToKeyEvents" /\ keyState = -1
    /\ thrown = 0

\* events i and i+1 are the character key pressed and released
CharPairAt(i) ==
    /\ keyEvents[i].isKeyDown
    /\ keyEvents[i].char = wch
    /\ keyEvents[i].virtualKeyCode = (keyState % 65536) % 256
    /\ keyEvents[i + 1] = [keyEvents[i] EXCEPT !.isKeyDown = FALSE]

IsEvent(e, down, vk, ch, flags) ==
    /\ e.isKeyDown = down
    /\ e.virtualKeyCode = vk
    /\ e.char = ch
    /\ e.modifiers = flags

\* the decimal digits of a byte 0..255, most significant first
DigitsOf(b) ==
    IF b >= 100 THEN <<b \div 100, (b \div 10) % 10, b % 10>>
    ELSE IF b >= 10 THEN <<b \div 10, b % 10>>
    ELSE <<b>>

\* the byte a one-char conversion result holds, read as unsigned
ByteOf(c) == IF c < 0 THEN c + 256 ELSE c

\* presses and releases nest: every release is of the key pressed last and
\* not yet released, and nothing stays pressed at the end
RECURSIVE Nested(_, _)
Nested(evs, held) ==
    IF evs = <<>> THEN held = <<>>
    ELSE IF Head(evs).isKeyDown
    THEN Nested(Tail(evs), <<Head(evs).virtualKeyCode>> \o held)
    ELSE /\ held # <<>>
         /\ Head(held) = Head(evs).virtualKeyCode
         /\ Nested(Tail(evs), Tail(held))

----------------------------------------------------------------------------
(* C1.  SynthesizeKeyboardEvents returns the shape the modifier byte       *)
(* chooses: with Ctrl and Alt both set, Alt-down {Enhanced, LeftCtrl,      *)
(* RightAlt} with a null character, char-down, char-up, Alt-up {Enhanced}  *)
(* with a null character; otherwise with Shift set, Shift-down {Shift},    *)
(* char-down, char-up, Shift-up {}; otherwise char-down, char-up.  The     *)
(* character pair carries the character and the low byte of keyState and   *)
(* differs only in isKeyDown.                                              *)
C1_KeyboardShape ==
    KeyboardPath =>
        IF AltGrCategory
        THEN /\ Len(keyEvents) = 4
             /\ IsEvent(keyEvents[1], TRUE, 18, 0,
                        {"ENHANCED_KEY", "LEFT_CTRL_PRESSED", "RIGHT_ALT_PRESSED"})
             /\ CharPairAt(2)
             /\ IsEvent(keyEvents[4], FALSE, 18, 0, {"ENHANCED_KEY"})
        ELSE IF ShiftBit
        THEN /\ Len(keyEvents) = 4
             /\ IsEvent(keyEvents[1], TRUE, 16, 0, {"SHIFT_PRESSED"})
             /\ CharPairAt(2)
             /\ IsEvent(keyEvents[4], FALSE, 16, 0, {})
        ELSE /\ Len(keyEvents) = 2
             /\ CharPairAt(1)

\* Shift, Ctrl and Alt all set: the Alt bracket is produced, not the Shift one
C1_Witness ==
    /\ fn = "SynthesizeKeyboardEvents"
    /\ ModByte = 7
    /\ Len(keyEvents) = 4
    /\ keyEvents[1].virtualKeyCode = 18

(* C2.  When ConvertToA succeeds, SynthesizeNumpadEvents returns Alt-down  *)
(* {LeftAlt} with a null character, then, only for a one-byte result, a    *)
(* down/up pair on VK_NUMPAD0 + d for each decimal digit d of the byte     *)
(* read as 0..255, each {LeftAlt} with a null character, then Alt-up with  *)
(* no flags carrying the character: 2 + 2k events for k digits, 2 events   *)
(* for a multi-byte result.                                                *)
C2_NumpadShape ==
    NumpadPath =>
        LET digits == IF Len(os.out) = 1 THEN DigitsOf(ByteOf(os.out[1])) ELSE <<>>
            k == Len(digits)
        IN /\ Len(keyEvents) = 2 + 2 * k
           /\ IsEvent(keyEvents[1], TRUE, 18, 0, {"LEFT_ALT_PRESSED"})
           /\ \A j \in 1..k :
                /\ IsEvent(keyEvents[2 * j], TRUE, 96 + digits[j], 0, {"LEFT_ALT_PRESSED"})
                /\ IsEvent(keyEvents[2 * j + 1], FALSE, 96 + digits[j], 0, {"LEFT_ALT_PRESSED"})
           /\ IsEvent(keyEvents[2 + 2 * k], FALSE, 18, wch, {})

\* the char -1 is typed as 2, 5, 5
C2_Witness ==
    /\ fn = "SynthesizeNumpadEvents"
    /\ thrown = 0
    /\ os.out = <<-1>>
    /\ Len(keyEvents) = 8
    /\ keyEvents[2].virtualKeyCode = 98

C4_Routing ==
    fn = "CharToKeyEvents" =>
        LET alpha == (charType \div 32768) % 2 = 1
            wide == GetQuickCharWidth(wch) = "Wide"
        IN IF vkKeyScan # -1
           THEN /\ thrown = 0
                /\ keyEvents = SynthesizeKeyboardEvents(wch, vkKeyScan)
           ELSE IF alpha \/ wide
           THEN /\ thrown = 0
                /\ Len(keyEvents) = 2
                /\ IsEvent(keyEvents[1], TRUE, 0, wch, {})
                /\ IsEvent(keyEvents[2], FALSE, 0, wch, {})
           ELSE LET r == SynthesizeNumpadEvents(wch, codepage, os, 0)
                IN /\ keyEvents = r.events
                   /\ (thrown = 0) <=> (r.thrown = 0)

\* an alphabetic character without a mapping, sent as virtual key 0
C4_Witness ==
    /\ fn = "CharToKeyEvents"
    /\ vkKeyScan = -1
    /\ charType = 32768
    /\ Len(keyEvents) = 2
    /\ keyEvents[1].virtualKeyCode = 0
    /\ keyEvents[1].char = wch

(* C5.  In both directions, a non-empty input on which the OS primitive    *)
(* returns length 0 without reporting an error does not fail and yields an *)
(* empty result, and a failure is raised only when the OS primitive        *)
(* reports an error for this very call, whatever last error was left       *)
(* behind before.                                                          *)
C5_ZeroLengthIsNoFailure ==
    (fn \in {"ConvertToW", "ConvertToA"} /\ source # <<>>) =>
        /\ (os.err = 0 /\ os.out = <<>>) =>
                /\ thrown = 0
                /\ (fn = "ConvertToW" => outBufferW = <<>>)
                /\ (fn = "ConvertToA" => outBufferA = <<>>)
        /\ thrown # 0 => os.err # 0

(* C6.  As claimed: in every returned sequence only the character key      *)
(* pair carries a character; every modifier event (Alt-down, Alt-up,       *)
(* Shift-down, Shift-up) and every numpad digit event carries a null       *)
(* character, on the direct path and on the numpad path.                   *)
C6_OnlyCharPairCarriesChar ==
    /\ (KeyboardPath /\ Len(keyEvents) = 4) =>
            keyEvents[1].char = 0 /\ keyEvents[4].char = 0
    /\ NumpadPath => \A i \in 1..Len(keyEvents) : keyEvents[i].char = 0

(* C6, amended.  On the direct path the bracketing modifier events carry a *)
(* null character.  On the numpad path Alt-down and every digit event      *)
(* carry a null character and the closing Alt-up carries the input         *)
(* character.                                                              *)
C6_CharFields ==
    /\ (KeyboardPath /\ Len(keyEvents) = 4) =>
            keyEvents[1].char = 0 /\ keyEvents[4].char = 0
    /\ NumpadPath =>
            /\ \A i \in 1..(Len(keyEvents) - 1) : keyEvents[i].char = 0
            /\ keyEvents[Len(keyEvents)].char = wch

\* a numpad sequence with digits whose closing Alt-up carries the character
C6_Witness ==
    /\ NumpadPath
    /\ Len(keyEvents) >= 4
    /\ wch # 0
    /\ keyEvents[Len(keyEvents)].char = wch
    /\ ~keyEvents[Len(keyEvents)].isKeyDown

(* C7.  After every successful call of a buffer-reusing conversion the     *)
(* caller's buffer holds exactly what the fresh-allocation form returns    *)
(* for the same input, whatever it held before; an empty input leaves it   *)
(* empty without a call of the OS primitive and without error.             *)
C7_BufferMatchesFresh ==
    /\ (fn = "ConvertToW" /\ thrown = 0) =>
            LET fresh == ConvertToWString(os, source, lastError)
            IN /\ fresh.thrown = 0
               /\ outBufferW = fresh.out
               /\ outBufferW = os.out
    /\ (fn = "ConvertToA" /\ thrown = 0) =>
            LET fresh == ConvertToAString(os, source, lastError)
            IN /\ fresh.thrown = 0
               /\ outBufferA = fresh.out
               /\ outBufferA = os.out
    /\ (fn \in {"ConvertToW", "ConvertToA"} /\ source = <<>>) =>
            /\ thrown = 0
            /\ osCalls = 0
            /\ (fn = "ConvertToW" => outBufferW = <<>>)
            /\ (fn = "ConvertToA" => outBufferA = <<>>)

\* a conversion into a buffer that held more than the result needs
C7_Witness ==
    /\ fn = "ConvertToA"
    /\ thrown = 0
    /\ source # <<>>
    /\ Len(prevBuffer) > Len(outBufferA)
    /\ outBufferA = os.out

(* C8.  As claimed: Utf16ToUcs2 fails with InvalidArgument whenever its    *)
(* input holds more than one code unit, and returns the single code unit   *)
(* only when the input holds exactly one.                                  *)
C8_MoreThanOneIsInvalidArgument ==
    fn = "Utf16ToUcs2" =>
        /\ Len(source) > 1 => thrown = 87
        /\ Len(source) = 1 => (thrown = 0 /\ retval = source[1])

(* C8, amended.  Utf16ToUcs2 fails with InvalidArgument when its input is  *)
(* empty, returns U+FFFD without failing when the input holds more than    *)
(* one code unit, and returns the single code unit when it holds one.      *)
C8_Utf16ToUcs2 ==
    fn = "Utf16ToUcs2" =>
        /\ Len(source) = 0 => thrown = 87
        /\ Len(source) > 1 => (thrown = 0 /\ retval = 65533)
        /\ Len(source) = 1 => (thrown = 0 /\ retval = source[1])

\* a surrogate pair comes back as the replacement character
C8_Witness ==
    /\ fn = "Utf16ToUcs2"
    /\ Len(source) = 2
    /\ thrown = 0
    /\ retval = 65533

(* C9.  As claimed: on the character key pair the Shift flag is set        *)
(* exactly when the category is ShiftPressed (Shift bit set, Ctrl and Alt  *)
(* not both set), LeftCtrl exactly when the Ctrl bit is set, RightAlt      *)
(* exactly when Ctrl and Alt are both set, and no other flag.              *)
C9_ShiftFlagByCategory ==
    KeyboardPath =>
        LET i == IF Len(keyEvents) = 4 THEN 2 ELSE 1
            flags == (IF ShiftCategory THEN {"SHIFT_PRESSED"} ELSE {})
                     \cup (IF CtrlBit THEN {"LEFT_CTRL_PRESSED"} ELSE {})
                     \cup (IF AltGrCategory THEN {"RIGHT_ALT_PRESSED"} ELSE {})
        IN keyEvents[i].modifiers = flags /\ keyEvents[i + 1].modifiers = flags

(* C9, amended.  On the character key pair the Shift flag is set exactly   *)
(* when the Shift bit is set (also when Ctrl and Alt are both set),        *)
(* LeftCtrl exactly when the Ctrl bit is set, RightAlt exactly when Ctrl   *)
(* and Alt are both set, and no other flag.                                *)
C9_PrimaryFlags ==
    KeyboardPath =>
        LET i == IF Len(keyEvents) = 4 THEN 2 ELSE 1
            flags == (IF ShiftBit THEN {"SHIFT_PRESSED"} ELSE {})
                     \cup (IF CtrlBit THEN {"LEFT_CTRL_PRESSED"} ELSE {})
                     \cup (IF AltGrCategory THEN {"RIGHT_ALT_PRESSED"} ELSE {})
        IN keyEvents[i].modifiers = flags /\ keyEvents[i + 1].modifiers = flags

\* Shift with AltGr: the character key carries Shift inside the Alt bracket
C9_Witness ==
    /\ KeyboardPath
    /\ ShiftBit /\ AltGrCategory
    /\ Len(keyEvents) = 4
    /\ keyEvents[2].modifiers = {"SHIFT_PRESSED", "LEFT_CTRL_PRESSED", "RIGHT_ALT_PRESSED"}

(* C10.  GetQuickCharWidth returns Narrow for 0x20..0x7E and Invalid for   *)
(* every other code unit, never Wide; so a character without a mapping is  *)
(* forced to the direct path exactly when it is alphabetic, and every      *)
(* other unmapped character goes to the numpad path whatever its width.    *)
C10_WidthNeverWide ==
    /\ fn = "GetQuickCharWidth" =>
            /\ retval = (IF wch >= 32 /\ wch <= 126 THEN "Narrow" ELSE "Invalid")
            /\ retval # "Wide"
    /\ (fn = "CharToKeyEvents" /\ vkKeyScan = -1) =>
            LET alpha == (charType \div 32768) % 2 = 1
            IN /\ (keyState = 0) <=> alpha
               /\ ~alpha =>
                    /\ keyState = -1
                    /\ thrown = 0 => IsEvent(keyEvents[1], TRUE, 18, 0, {"LEFT_ALT_PRESSED"})

\* U+3042, not reported alphabetic and without a mapping, goes to the numpad
C10_Witness ==
    /\ fn = "CharToKeyEvents"
    /\ vkKeyScan = -1
    /\ wch = 12354
    /\ charType = 0
    /\ keyState = -1
    /\ thrown = 0
    /\ keyEvents[1].virtualKeyCode = 18

====
